---- MODULE Spec2Model ----
(***************************************************************************)
(* Model of the fixtool agent (src/agent/fixtool-agent.py): the control    *)
(* channel's length-prefixed frame codec (ControlSession), the reactor     *)
(* callbacks, and the request handlers of FixToolAgent with the Client,    *)
(* Server and ServerSession entities they drive.                           *)
(*                                                                         *)
(* The specifications share the variables:                                 *)
(*   SpecFrame     one accepted control session, the controller's frames   *)
(*                 arriving byte by byte in arbitrary chunks;              *)
(*   SpecClient,   the agent's tables and entities under requests that     *)
(*   SpecServer,   arrive as whole frames, and under socket readiness      *)
(*   ...           events, each with its own controller;                   *)
(*   SpecEndpoint  a connected Client and ServerSession receiving FIX      *)
(*                 messages from their peers.                              *)
(***************************************************************************)
EXTENDS Integers, Sequences, FiniteSets, TLC

\* ---------------------------------------------------------------- bounds
MaxPayloadLen == 2
MaxByte == 1
MaxFrames == 3
MaxReads == 3

Bytes == 0..MaxByte
Payloads == UNION {[1..n -> Bytes] : n \in 0..MaxPayloadLen}

\* Python's None
None == "None"

\* names and sockets the requests and events range over
ClientNames == {"A", "B"}
ServerNames == {"S"}
SessionNames == {"x", "y"}
ControlSockets == {1, 2}
Ports == {-1, 0, 65535, 65536}
MaxConn == 2          \* ServerSession objects ever created
MaxListen == 2        \* listening sockets open at the same time
MaxMsgs == 2          \* FIX messages the peers write, all connections together

VARIABLES
    wire,              \* bytes written by the controller, not yet read by the agent
    frames,            \* payloads the controller has framed and sent, in order
    returned,          \* payloads returned by append_bytes, in order
    dispatched,        \* payloads handed to json.loads/handle_request, in order
    nreads,            \* number of non-empty reads made on the control socket
    control_sessions,  \* FixToolAgent._control_sessions (keys: control sockets)
    buffer,            \* ControlSession._buffer of each control session
    readers,           \* the reactor's add_reader registrations, by kind of socket
    clients,           \* FixToolAgent._clients: name -> Client
    servers,           \* FixToolAgent._servers: name -> Server
    server_sessions,   \* FixToolAgent._server_sessions: name -> ServerSession id or 0 (None)
    sessions,          \* every ServerSession object created so far, by id
    lsocks,            \* the open listening sockets created by Server.listen
    acceptLog,         \* per server: ids of the connections raw-accepted, in order
    promoteLog,        \* per server: ids of the connections promoted by accept, in order
    last,              \* what the last callback did: request, responses sent, raise
    net                \* the peers of the Clients and ServerSessions: bytes in flight

frameVars == <<wire, frames, returned, dispatched, nreads, buffer>>
agentVars == <<clients, servers, server_sessions, sessions, lsocks, acceptLog, promoteLog, last,
               net>>
vars == <<wire, frames, returned, dispatched, nreads, control_sessions, buffer, readers,
          clients, servers, server_sessions, sessions, lsocks, acceptLog, promoteLog, last,
          net>>

\* ------------------------------------------------------------ frame codec
Min(a, b) == IF a < b THEN a ELSE b

\* Python slice s[i:j] with 0-based i, exclusive j, clamped to the length
Slice(s, i, j) == SubSeq(s, i + 1, Min(j, Len(s)))

\* struct.pack(">L", n)
Pack(n) ==
    << (n \div 16777216) % 256, (n \div 65536) % 256, (n \div 256) % 256, n % 256 >>

\* struct.unpack(b'>L', b)[0]
Unpack(b) == b[1] * 16777216 + b[2] * 65536 + b[3] * 256 + b[4]

\* ControlSession.send: the bytes handed to sendall
send(payload) ==
    LET payload_length == Len(payload)
        header == Pack(payload_length)
    IN header \o payload

\* ControlSession.append_bytes: the new _buffer and the returned value
\* (payload is <<>> for None, <<p>> for a returned payload p)
\* append_bytes without its "self._buffer = self._buffer[payload_length:]"
append_bytes_keeps(self_buffer, buf) ==
    LET b1 == self_buffer \o buf IN
    IF Len(b1) <= 4 THEN [buffer |-> b1, payload |-> <<>>]
    ELSE LET payload_length == Unpack(Slice(b1, 0, 4)) IN
         IF Len(buf) < 4 + payload_length THEN [buffer |-> b1, payload |-> <<>>]
         ELSE LET b2 == Slice(b1, 4, Len(b1))
              IN [buffer |-> b2, payload |-> <<Slice(b2, 0, payload_length)>>]

\* append_bytes without its "len(buffer) < 4 + payload_length" test
append_bytes_unchecked(self_buffer, buf) ==
    LET b1 == self_buffer \o buf IN
    IF Len(b1) <= 4 THEN [buffer |-> b1, payload |-> <<>>]
    ELSE LET payload_length == Unpack(Slice(b1, 0, 4))
             b2 == Slice(b1, 4, Len(b1))
             payload == Slice(b2, 0, payload_length)
         IN [buffer |-> Slice(b2, payload_length, Len(b2)), payload |-> <<payload>>]

append_bytes(self_buffer, buf) ==
    LET b1 == self_buffer \o buf IN
    IF Len(b1) <= 4
    THEN [buffer |-> b1, payload |-> <<>>]
    ELSE LET payload_length == Unpack(Slice(b1, 0, 4)) IN
         IF Len(buf) < 4 + payload_length
         THEN [buffer |-> b1, payload |-> <<>>]
         ELSE LET b2 == Slice(b1, 4, Len(b1))
                  payload == Slice(b2, 0, payload_length)
              IN [buffer |-> Slice(b2, payload_length, Len(b2)),
                  payload |-> <<payload>>]

\* FixToolAgent.readable, lines 386-390: the payloads dispatched out of one
\* result of append_bytes (the loop body ends with payload = None)
drain(payload) == payload

\* -------------------------------------------------------------- helpers
Empty == [x \in {} |-> 0]
Put(f, k, v) == [x \in (DOMAIN f) \cup {k} |-> IF x = k THEN v ELSE f[x]]
Del(f, k) == [x \in (DOMAIN f) \ {k} |-> f[x]]

NoMsg == [type |-> None, name |-> None, port |-> <<>>, session_name |-> None]
NoLast == [kind |-> "init", cs |-> 0, msg |-> NoMsg, resp |-> <<>>, raised |-> FALSE,
           name |-> None, id |-> 0]

\* what a peer has written to one connection: the bytes still in flight, the
\* messages written so far, and the messages get_message has handed out
NoTraffic == [wire |-> <<>>, sent |-> <<>>, got |-> <<>>]
\* no peer has written anything
NoNet == [sess |-> Empty, cli |-> Empty]
Traffic(f, k) == IF k \in DOMAIN f THEN f[k] ELSE NoTraffic

\* FixToolAgent.__init__: empty tables, the control listening socket registered
AgentInit ==
    /\ clients = Empty
    /\ servers = Empty
    /\ server_sessions = Empty
    /\ sessions = <<>>
    /\ lsocks = Empty
    /\ acceptLog = Empty
    /\ promoteLog = Empty
    /\ last = NoLast
    /\ net = NoNet

FrameInit ==
    /\ wire = <<>>
    /\ frames = <<>>
    /\ returned = <<>>
    /\ dispatched = <<>>
    /\ nreads = 0

\* ------------------------------------------------- control channel, bytes
\* The controller frames a payload as ControlSession.send does and writes it
ControllerSend(p) ==
    /\ control_sessions # {}
    /\ Len(frames) < MaxFrames
    /\ wire' = wire \o send(p)
    /\ frames' = Append(frames, p)
    /\ UNCHANGED <<returned, dispatched, nreads, control_sessions, buffer, readers>>
    /\ UNCHANGED agentVars

\* FixToolAgent.readable with a non-empty read of n bytes: append_bytes, then
\* the dispatch loop
readable_bytes(sock, n) ==
    /\ sock \in control_sessions
    /\ sock \in readers.ctl
    /\ nreads < MaxReads
    /\ n \in 1..Len(wire)
    /\ LET buf == SubSeq(wire, 1, n)
           r == append_bytes(buffer[sock], buf)
       IN /\ buffer' = [buffer EXCEPT ![sock] = r.buffer]
          /\ returned' = returned \o r.payload
          /\ dispatched' = dispatched \o drain(r.payload)
          /\ wire' = SubSeq(wire, n + 1, Len(wire))
    /\ nreads' = nreads + 1
    /\ UNCHANGED <<frames, control_sessions, readers>>
    /\ UNCHANGED agentVars

\* the zero-length read without its "del self._control_sessions[sock]"
readable_eof_keeps(sock) ==
    /\ sock \in control_sessions
    /\ sock \in readers.ctl
    /\ wire = <<>>
    /\ readers' = [readers EXCEPT !.ctl = @ \ {sock}]
    /\ last' = [NoLast EXCEPT !.kind = "control_eof", !.cs = sock]
    /\ UNCHANGED <<wire, frames, returned, dispatched, nreads, control_sessions, buffer>>
    /\ UNCHANGED <<clients, servers, server_sessions, sessions, lsocks, acceptLog, promoteLog,
                   net>>

\* FixToolAgent.readable with a zero-length read: the peer closed
readable_eof(sock) ==
    /\ sock \in control_sessions
    /\ sock \in readers.ctl
    /\ wire = <<>>
    /\ readers' = [readers EXCEPT !.ctl = @ \ {sock}]
    /\ control_sessions' = control_sessions \ {sock}
    /\ buffer' = Del(buffer, sock)
    /\ last' = [NoLast EXCEPT !.kind = "control_eof", !.cs = sock]
    /\ UNCHANGED <<wire, frames, returned, dispatched, nreads>>
    /\ UNCHANGED <<clients, servers, server_sessions, sessions, lsocks, acceptLog, promoteLog,
                   net>>

\* one control session accepted (FixToolAgent.accept), nothing received yet
InitFrame ==
    /\ FrameInit
    /\ AgentInit
    /\ control_sessions = {1}
    /\ buffer = [c \in {1} |-> <<>>]
    /\ readers = [listen |-> TRUE, ctl |-> {1}, cli |-> {}, lsock |-> {}, sess |-> {}]

NextFrame ==
    \/ \E p \in Payloads : ControllerSend(p)
    \/ \E sock \in ControlSockets : \E n \in 1..(MaxFrames * (4 + MaxPayloadLen)) :
          readable_bytes(sock, n)
    \/ \E sock \in ControlSockets : readable_eof(sock)

SpecFrame == InitFrame /\ [][NextFrame]_vars

\* SpecFrame with a controller that sends an empty payload or a two-byte one
AlignPayloads == {<<>>, <<1, 1>>}

NextAlign ==
    \/ \E p \in AlignPayloads : ControllerSend(p)
    \/ \E sock \in ControlSockets : \E n \in 1..(MaxFrames * (4 + MaxPayloadLen)) :
          readable_bytes(sock, n)
    \/ \E sock \in ControlSockets : readable_eof(sock)

SpecAlign == InitFrame /\ [][NextAlign]_vars

\* ------------------------------------------------------ requests, responses
ClientRequestTypes ==
    {"client_create", "client_destroy", "client_connect", "client_is_connected_request"}
ServerRequestTypes ==
    {"server_create", "server_destroy", "server_pending_accept_request"}
PortRequestTypes == {"server_listen", "server_unlisten"}
SessionRequestTypes == {"server_is_connected_request", "server_disconnect"}
RecognizedTypes ==
    ClientRequestTypes \cup ServerRequestTypes \cup PortRequestTypes
    \cup SessionRequestTypes \cup {"server_accept"}
\* types handle_request returns on without calling a handler
IgnoredTypes == {"server_get_message", "bogus"}

\* message.get("port"): <<>> when the field is missing, <<p>> otherwise
PortArgs == {<<>>} \cup {<<p>> : p \in Ports}

Requests ==
    {[NoMsg EXCEPT !.type = t, !.name = n] : t \in ClientRequestTypes, n \in ClientNames}
    \cup {[NoMsg EXCEPT !.type = t, !.name = n] : t \in ServerRequestTypes, n \in ServerNames}
    \cup {[NoMsg EXCEPT !.type = t[1], !.name = n, !.port = t[2]] :
              t \in PortRequestTypes \X PortArgs, n \in ServerNames}
    \cup {[NoMsg EXCEPT !.type = "server_accept", !.name = n, !.session_name = sn] :
              n \in ServerNames, sn \in SessionNames}
    \cup {[NoMsg EXCEPT !.type = t, !.name = n] : t \in SessionRequestTypes, n \in SessionNames}
    \cup {[NoMsg EXCEPT !.type = t] : t \in IgnoredTypes}

\* the arguments of a response message's constructor; reason is the text
\* as a sequence of words, '' being <<>>
Response(cls, name, success, reason) ==
    [cls |-> cls, name |-> name, success |-> success, reason |-> reason]
IsConnectedResponse(cls, name, success, reason, is_connected) ==
    [cls |-> cls, name |-> name, success |-> success, reason |-> reason,
     is_connected |-> is_connected]
ServerPendingAcceptCountResponse(name, success, reason, count) ==
    [cls |-> "ServerPendingAcceptCountResponse", name |-> name, success |-> success,
     reason |-> reason, count |-> count]
ServerAcceptedMessage(name, success, reason, session_name) ==
    [cls |-> "ServerAcceptedMessage", name |-> name, success |-> success,
     reason |-> reason, session_name |-> session_name]

\* the handler sent response r with control.send and returned
Answered(control, message, r) ==
    [NoLast EXCEPT !.kind = "request", !.cs = control, !.msg = message,
                   !.resp = <<[to |-> control, body |-> r]>>]
\* the handler raised before sending anything
Raised(control, message) ==
    [NoLast EXCEPT !.kind = "request", !.cs = control, !.msg = message, !.raised = TRUE]
\* handle_request returned without sending
Silent(control, message) ==
    [NoLast EXCEPT !.kind = "request", !.cs = control, !.msg = message]

Get(f, k) == IF k \in DOMAIN f THEN f[k] ELSE 0
Range(f) == {f[x] : x \in DOMAIN f}
SeqRange(q) == {q[i] : i \in 1..Len(q)}

controlUnch ==
    UNCHANGED <<wire, frames, returned, dispatched, nreads, control_sessions, buffer, net>>

\* ---------------------------------------------------------------- Client
\* Client.__init__
Client_new == [is_connected |-> FALSE, socket |-> "open", parser |-> <<>>, recv_queue |-> <<>>]

\* Client.disconnect without its "self._is_connected = False"
Client_disconnect_flagged(client) == [client EXCEPT !.socket = "closed"]

\* Client.disconnect: the Client afterwards (remove_reader is in the callers)
Client_disconnect(client) == [client EXCEPT !.socket = "closed", !.is_connected = FALSE]

handle_client_create(control, message) ==
    LET name == message.name IN
    /\ IF name \in DOMAIN clients
       THEN /\ last' = Answered(control, message,
                   Response("ClientCreatedMessage", name, FALSE,
                            <<"Client", name, "already", "exists">>))
            /\ UNCHANGED clients
       ELSE /\ clients' = Put(clients, name, Client_new)
            /\ last' = Answered(control, message,
                   Response("ClientCreatedMessage", name, TRUE, <<>>))
    /\ UNCHANGED <<readers, servers, server_sessions, sessions, lsocks, acceptLog, promoteLog>>
    /\ controlUnch

\* handle_client_destroy without its "del self._clients[name]"
handle_client_destroy_keeps(control, message) ==
    LET name == message.name IN
    /\ IF name \notin DOMAIN clients
       THEN /\ last' = Raised(control, message)
            /\ UNCHANGED <<clients, readers>>
       ELSE /\ readers' = IF clients[name].is_connected
                          THEN [readers EXCEPT !.cli = @ \ {name}]
                          ELSE readers
            /\ clients' = IF clients[name].is_connected
                          THEN [clients EXCEPT ![name] = Client_disconnect(@)]
                          ELSE clients
            /\ last' = Answered(control, message,
                   Response("ClientDestroyedMessage", name, TRUE, <<>>))
    /\ UNCHANGED <<servers, server_sessions, sessions, lsocks, acceptLog, promoteLog>>
    /\ controlUnch

\* handle_client_destroy with a Client.destroy that calls disconnect whatever
\* _is_connected says: remove_reader raises on a socket already closed
handle_client_destroy_always(control, message) ==
    LET name == message.name IN
    /\ IF name \notin DOMAIN clients \/ clients[name].socket = "closed"
       THEN /\ last' = Raised(control, message)
            /\ UNCHANGED <<clients, readers>>
       ELSE /\ readers' = [readers EXCEPT !.cli = @ \ {name}]
            /\ clients' = Del(clients, name)
            /\ last' = Answered(control, message,
                   Response("ClientDestroyedMessage", name, TRUE, <<>>))
    /\ UNCHANGED <<servers, server_sessions, sessions, lsocks, acceptLog, promoteLog>>
    /\ controlUnch

handle_client_destroy(control, message) ==
    LET name == message.name IN
    /\ IF name \notin DOMAIN clients
       THEN \* "No such client '$s'" % name raises TypeError
            /\ last' = Raised(control, message)
            /\ UNCHANGED <<clients, readers>>
       ELSE /\ readers' = IF clients[name].is_connected
                          THEN [readers EXCEPT !.cli = @ \ {name}]
                          ELSE readers
            /\ clients' = Del(clients, name)
            /\ last' = Answered(control, message,
                   Response("ClientDestroyedMessage", name, TRUE, <<>>))
    /\ UNCHANGED <<servers, server_sessions, sessions, lsocks, acceptLog, promoteLog>>
    /\ controlUnch

handle_client_connect(control, message) ==
    LET name == message.name IN
    /\ IF name \notin DOMAIN clients
       THEN \* "No such client '$s'" % name raises TypeError
            /\ last' = Raised(control, message)
            /\ UNCHANGED <<clients, readers>>
       ELSE \E connected \in BOOLEAN :
            \* socket.connect raises on a connected or closed socket, and when
            \* the peer refuses
            IF connected /\ clients[name].socket = "open"
            THEN /\ clients' = [clients EXCEPT ![name].socket = "connected",
                                                ![name].is_connected = TRUE]
                 /\ readers' = [readers EXCEPT !.cli = @ \cup {name}]
                 /\ last' = Answered(control, message,
                        Response("ClientConnectedMessage", name, TRUE, <<>>))
            ELSE /\ last' = Raised(control, message)
                 /\ UNCHANGED <<clients, readers>>
    /\ UNCHANGED <<servers, server_sessions, sessions, lsocks, acceptLog, promoteLog>>
    /\ controlUnch

handle_client_is_connected_request(control, message) ==
    LET name == message.name IN
    /\ IF name \notin DOMAIN clients
       THEN last' = Answered(control, message,
                IsConnectedResponse("ClientIsConnectedResponse", name, FALSE,
                                    <<"No", "such", "client", name>>, FALSE))
       ELSE last' = Answered(control, message,
                IsConnectedResponse("ClientIsConnectedResponse", name, TRUE, <<>>,
                                    clients[name].is_connected))
    /\ UNCHANGED <<clients, readers, servers, server_sessions, sessions, lsocks,
                   acceptLog, promoteLog>>
    /\ controlUnch

\* Client.readable with a zero-length read
Client_readable(name) ==
    /\ name \in readers.cli
    /\ Traffic(net.cli, name).wire = <<>>
    /\ clients' = [clients EXCEPT ![name] = Client_disconnect(@)]
    /\ readers' = [readers EXCEPT !.cli = @ \ {name}]
    /\ last' = [NoLast EXCEPT !.kind = "client_eof", !.name = name]
    /\ UNCHANGED <<servers, server_sessions, sessions, lsocks, acceptLog, promoteLog>>
    /\ controlUnch

\* Client.disconnect called on the Client itself: remove_reader returns False
\* for a socket that is not registered and raises ValueError for a closed one
Client_disconnect_called(name) ==
    /\ name \in DOMAIN clients
    /\ IF clients[name].socket = "closed"
       THEN /\ last' = [NoLast EXCEPT !.kind = "client_disconnect", !.name = name,
                                      !.raised = TRUE]
            /\ UNCHANGED <<clients, readers>>
       ELSE /\ clients' = [clients EXCEPT ![name] = Client_disconnect(@)]
            /\ readers' = [readers EXCEPT !.cli = @ \ {name}]
            /\ last' = [NoLast EXCEPT !.kind = "client_disconnect", !.name = name]
    /\ UNCHANGED <<servers, server_sessions, sessions, lsocks, acceptLog, promoteLog>>
    /\ controlUnch

\* ------------------------------------------------- Server, ServerSession
\* Server.__init__ (socket 0 is None)
Server_new == [socket |-> 0, pending |-> <<>>, accepted |-> Empty]

\* ServerSession.__init__ (socket None is the closed, forgotten socket); _server
\* and _name are written and never read, and are left out
ServerSession_new ==
    [is_connected |-> TRUE, socket |-> "open", parser |-> <<>>, queue |-> <<>>]

\* ServerSession.disconnect: the session afterwards (remove_reader is in the callers)
ServerSession_disconnect(session) ==
    [session EXCEPT !.socket = None, !.is_connected = FALSE]

\* ServerSession.destroy disconnects only a session that is_connected, and
\* empties the queue
ServerSession_destroy(session) ==
    [(IF session.is_connected THEN ServerSession_disconnect(session) ELSE session)
        EXCEPT !.queue = <<>>]

\* Server.pending_client_count
pending_client_count(server) == Len(server.pending)

\* accept_client_session popping the newest pending session: pop() for pop(0)
accept_client_session_newest(server, name) ==
    IF pending_client_count(server) < 1
    THEN [client |-> 0, server |-> server]
    ELSE LET client == server.pending[Len(server.pending)] IN
         [client |-> client,
          server |-> [server EXCEPT !.pending = SubSeq(@, 1, Len(@) - 1),
                                    !.accepted = Put(@, name, client)]]

\* Server.accept_client_session: the session popped (0 for None) and the
\* Server afterwards
accept_client_session(server, name) ==
    IF pending_client_count(server) < 1
    THEN [client |-> 0, server |-> server]
    ELSE LET client == Head(server.pending) IN
         [client |-> client,
          server |-> [server EXCEPT !.pending = Tail(@),
                                    !.accepted = Put(@, name, client)]]

\* the descriptor socket.socket() returns: the lowest one not in use
FreeSockets == (1..MaxListen) \ DOMAIN lsocks
NewSocket == CHOOSE k \in FreeSockets : \A j \in FreeSockets : k <= j

\* bind fails with EADDRINUSE on a port another socket listens on (port 0
\* asks for an ephemeral port)
PortInUse(port) ==
    port # 0 /\ \E k \in DOMAIN lsocks :
                   lsocks[k].state = "listening" /\ lsocks[k].port = port

\* the port test with the bounds 0 and 65535 shut out
BadPort_exclusive(port) == port = <<>> \/ port[1] <= 0 \/ port[1] >= 65535

\* "port is None or port < 0 or port > 65535"
BadPort(port) == port = <<>> \/ port[1] < 0 \/ port[1] > 65535

handle_server_create(client, message) ==
    LET name == message.name IN
    /\ IF name \in DOMAIN servers
       THEN /\ last' = Answered(client, message,
                   Response("ServerCreatedMessage", name, FALSE,
                            <<"Server", name, "already", "exists">>))
            /\ UNCHANGED <<servers, acceptLog, promoteLog>>
       ELSE /\ servers' = Put(servers, name, Server_new)
            /\ acceptLog' = Put(acceptLog, name, <<>>)
            /\ promoteLog' = Put(promoteLog, name, <<>>)
            /\ last' = Answered(client, message,
                   Response("ServerCreatedMessage", name, TRUE, <<>>))
    /\ UNCHANGED <<clients, readers, server_sessions, sessions, lsocks>>
    /\ controlUnch

handle_server_destroy(control, message) ==
    LET name == message.name IN
    /\ IF name \notin DOMAIN servers
       THEN \* "No such server '$s'" % name raises TypeError
            /\ last' = Raised(control, message)
            /\ UNCHANGED <<servers, sessions, readers, lsocks, acceptLog, promoteLog>>
       ELSE IF servers[name].socket # 0
       THEN \* Server.destroy calls self.unlisten() without its port: TypeError
            /\ last' = Raised(control, message)
            /\ UNCHANGED <<servers, sessions, readers, lsocks, acceptLog, promoteLog>>
       ELSE LET owned == SeqRange(servers[name].pending) \cup Range(servers[name].accepted)
            IN /\ sessions' = [id \in DOMAIN sessions |->
                                 IF id \in owned THEN ServerSession_destroy(sessions[id])
                                 ELSE sessions[id]]
               /\ readers' = [readers EXCEPT !.sess =
                                 @ \ {id \in owned : sessions[id].is_connected}]
               /\ servers' = Del(servers, name)
               \* listening sockets still registered call back into the dead Server
               /\ lsocks' = [k \in DOMAIN lsocks |->
                               IF lsocks[k].owner = name
                               THEN [lsocks[k] EXCEPT !.owner = None] ELSE lsocks[k]]
               /\ acceptLog' = Del(acceptLog, name)
               /\ promoteLog' = Del(promoteLog, name)
               /\ last' = Answered(control, message,
                      Response("ServerDestroyedMessage", name, TRUE, <<>>))
    /\ UNCHANGED <<clients, server_sessions>>
    /\ controlUnch

handle_server_listen(client, message) ==
    LET name == message.name
        port == message.port
    IN
    /\ IF name \notin DOMAIN servers
       THEN /\ last' = Answered(client, message,
                   Response("ServerListenedMessage", name, FALSE,
                            <<"No", "such", "server", name>>))
            /\ UNCHANGED <<servers, readers, lsocks>>
       ELSE IF BadPort(port)
       THEN /\ last' = Answered(client, message,
                   Response("ServerListenedMessage", name, FALSE,
                            <<"Bad", "or", "missing", "port">>))
            /\ UNCHANGED <<servers, readers, lsocks>>
       ELSE \* Server.listen
            /\ FreeSockets # {}
            /\ \E bound \in BOOLEAN :
               LET old == servers[name].socket
                   \* the socket self._socket held is closed when nothing else
                   \* refers to it; a registered one stays open in the reactor
                   kept == IF old # 0 /\ old \notin readers.lsock
                           THEN Del(lsocks, old) ELSE lsocks
               IN /\ servers' = [servers EXCEPT ![name].socket = NewSocket]
                  /\ IF bound /\ ~PortInUse(port[1])
                     THEN /\ lsocks' = Put(kept, NewSocket,
                                 [owner |-> name, state |-> "listening", port |-> port[1]])
                          /\ readers' = [readers EXCEPT !.lsock = @ \cup {NewSocket}]
                          /\ last' = Answered(client, message,
                                 Response("ServerListenedMessage", name, TRUE, <<>>))
                     ELSE \* bind raises OSError
                          /\ lsocks' = Put(kept, NewSocket,
                                 [owner |-> name, state |-> "unbound", port |-> 0])
                          /\ UNCHANGED readers
                          /\ last' = Raised(client, message)
    /\ UNCHANGED <<clients, server_sessions, sessions, acceptLog, promoteLog>>
    /\ controlUnch

handle_server_unlisten(client, message) ==
    LET name == message.name
        port == message.port
    IN
    /\ IF name \notin DOMAIN servers
       THEN /\ last' = Answered(client, message,
                   Response("ServerUnlistenedMessage", name, FALSE,
                            <<"No", "such", "server", name>>))
            /\ UNCHANGED <<servers, readers, lsocks>>
       ELSE IF BadPort(port)
       THEN /\ last' = Answered(client, message,
                   Response("ServerUnlistenedMessage", name, FALSE,
                            <<"Bad", "or", "missing", "port">>))
            /\ UNCHANGED <<servers, readers, lsocks>>
       ELSE IF servers[name].socket = 0
       THEN \* Server.unlisten: remove_reader(None) raises ValueError
            /\ last' = Raised(client, message)
            /\ UNCHANGED <<servers, readers, lsocks>>
       ELSE LET sock == servers[name].socket IN
            /\ readers' = [readers EXCEPT !.lsock = @ \ {sock}]
            /\ lsocks' = Del(lsocks, sock)
            /\ servers' = [servers EXCEPT ![name].socket = 0]
            /\ last' = Answered(client, message,
                   Response("ServerUnlistenedMessage", name, TRUE, <<>>))
    /\ UNCHANGED <<clients, server_sessions, sessions, acceptLog, promoteLog>>
    /\ controlUnch

handle_server_pending_accept_request(control, message) ==
    LET name == message.name IN
    /\ IF name \notin DOMAIN servers
       THEN last' = Answered(control, message,
                ServerPendingAcceptCountResponse(name, FALSE,
                    <<"No", "such", "server", name>>, 0))
       ELSE last' = Answered(control, message,
                ServerPendingAcceptCountResponse(name, TRUE, <<>>,
                    pending_client_count(servers[name])))
    /\ UNCHANGED <<clients, readers, servers, server_sessions, sessions, lsocks,
                   acceptLog, promoteLog>>
    /\ controlUnch

handle_server_accept(control, message) ==
    LET name == message.name IN
    /\ IF name \notin DOMAIN servers
       THEN /\ last' = Answered(control, message,
                   ServerAcceptedMessage(name, FALSE, <<"No", "such", "server", name>>, ""))
            /\ UNCHANGED <<servers, server_sessions, sessions, promoteLog>>
       ELSE LET session_name == message.session_name
                r == accept_client_session(servers[name], session_name)
                session == r.client
            IN /\ servers' = [servers EXCEPT ![name] = r.server]
               /\ UNCHANGED sessions
               /\ promoteLog' = IF session = 0 THEN promoteLog
                                ELSE [promoteLog EXCEPT ![name] = Append(@, session)]
               /\ server_sessions' = Put(server_sessions, session_name, session)
               /\ last' = Answered(control, message,
                      ServerAcceptedMessage(name, TRUE, <<>>, session_name))
    /\ UNCHANGED <<clients, readers, lsocks, acceptLog>>
    /\ controlUnch

handle_server_is_connected_request(control, message) ==
    LET name == message.name
        server_session == Get(server_sessions, name)
    IN
    /\ IF server_session = 0
       THEN last' = Answered(control, message,
                IsConnectedResponse("ServerIsConnectedResponse", name, FALSE,
                                    <<"No", "such", "session", name>>, FALSE))
       ELSE last' = Answered(control, message,
                IsConnectedResponse("ServerIsConnectedResponse", name, TRUE, <<>>,
                                    sessions[server_session].is_connected))
    /\ UNCHANGED <<clients, readers, servers, server_sessions, sessions, lsocks,
                   acceptLog, promoteLog>>
    /\ controlUnch

handle_server_disconnect(control, message) ==
    LET name == message.name
        server_session == Get(server_sessions, name)
    IN
    /\ IF server_session = 0
       THEN /\ last' = Answered(control, message,
                   Response("ServerDisconnectedMessage", name, FALSE,
                            <<"No", "such", "session", name>>))
            /\ UNCHANGED <<sessions, readers>>
       ELSE IF sessions[server_session].socket = None
       THEN \* ServerSession.disconnect: remove_reader(None) raises ValueError
            /\ last' = Raised(control, message)
            /\ UNCHANGED <<sessions, readers>>
       ELSE /\ readers' = [readers EXCEPT !.sess = @ \ {server_session}]
            /\ sessions' = [sessions EXCEPT ![server_session] = ServerSession_disconnect(@)]
            /\ last' = Answered(control, message,
                   Response("ServerDisconnectedMessage", name, TRUE, <<>>))
    /\ UNCHANGED <<clients, servers, server_sessions, lsocks, acceptLog, promoteLog>>
    /\ controlUnch

\* handle_request answering a type it has no handler for with a failure
handle_ignored_answers(control, message) ==
    /\ last' = Answered(control, message,
           Response("ErrorMessage", message.name, FALSE, <<"Unknown", "type">>))
    /\ UNCHANGED <<clients, readers, servers, server_sessions, sessions, lsocks,
                   acceptLog, promoteLog>>
    /\ controlUnch

\* handle_request on a type that has no handler: returns, nothing sent
handle_ignored(control, message) ==
    /\ last' = Silent(control, message)
    /\ UNCHANGED <<clients, readers, servers, server_sessions, sessions, lsocks,
                   acceptLog, promoteLog>>
    /\ controlUnch

\* FixToolAgent.handle_request, the client_* branches
handle_client_request(client, message) ==
    \/ message.type = "client_create" /\ handle_client_create(client, message)
    \/ message.type = "client_connect" /\ handle_client_connect(client, message)
    \/ message.type = "client_is_connected_request"
          /\ handle_client_is_connected_request(client, message)
    \/ message.type = "client_destroy" /\ handle_client_destroy(client, message)

\* FixToolAgent.handle_request, the server_* branches and the final else
handle_server_request(client, message) ==
    \/ message.type = "server_create" /\ handle_server_create(client, message)
    \/ message.type = "server_destroy" /\ handle_server_destroy(client, message)
    \/ message.type = "server_listen" /\ handle_server_listen(client, message)
    \/ message.type = "server_unlisten" /\ handle_server_unlisten(client, message)
    \/ message.type = "server_pending_accept_request"
          /\ handle_server_pending_accept_request(client, message)
    \/ message.type = "server_accept" /\ handle_server_accept(client, message)
    \/ message.type = "server_is_connected_request"
          /\ handle_server_is_connected_request(client, message)
    \/ message.type = "server_disconnect" /\ handle_server_disconnect(client, message)
    \/ message.type \notin RecognizedTypes /\ handle_ignored(client, message)

\* Server.acceptable, called for the registered listening socket k
Server_acceptable(k) ==
    /\ k \in readers.lsock
    /\ Len(sessions) < MaxConn
    /\ LET owner == lsocks[k].owner
           current == IF owner = None THEN 0 ELSE servers[owner].socket
       IN \E waiting \in BOOLEAN :
          \* self._socket.accept() returns a connection when self._socket is
          \* the ready socket, or another listening socket with a connection
          \* waiting; it raises on None, on an unbound socket, on an empty backlog
          IF current = k \/ (current # 0 /\ lsocks[current].state = "listening" /\ waiting)
          THEN LET id == Len(sessions) + 1 IN
               /\ sessions' = Append(sessions, ServerSession_new)
               /\ readers' = [readers EXCEPT !.sess = @ \cup {id}]
               /\ servers' = [servers EXCEPT ![owner].pending = Append(@, id)]
               /\ acceptLog' = [acceptLog EXCEPT ![owner] = Append(@, id)]
               /\ last' = [NoLast EXCEPT !.kind = "acceptable", !.id = id, !.name = owner]
          ELSE /\ last' = [NoLast EXCEPT !.kind = "acceptable", !.raised = TRUE]
               /\ UNCHANGED <<sessions, readers, servers, acceptLog>>
    /\ UNCHANGED <<clients, server_sessions, lsocks, promoteLog>>
    /\ controlUnch

\* ServerSession.readable with a zero-length read
ServerSession_readable(id) ==
    /\ id \in readers.sess
    /\ Traffic(net.sess, id).wire = <<>>
    /\ sessions' = [sessions EXCEPT ![id].is_connected = FALSE]
    /\ last' = [NoLast EXCEPT !.kind = "session_eof", !.id = id]
    /\ UNCHANGED <<clients, readers, servers, server_sessions, lsocks, acceptLog, promoteLog>>
    /\ controlUnch

\* ------------------------------------------------------- endpoint data
\* The FIX messages a peer writes: a body of bytes 1, ended by the byte 0
\* (the checksum field that completes a message for simplefix)
FixBodies == {<<1>>, <<1, 1>>}
encode(body) == body \o <<0>>

RECURSIVE Written(_)
\* the bytes of the messages msgs, written one after the other
Written(msgs) == IF msgs = <<>> THEN <<>> ELSE encode(Head(msgs)) \o Written(Tail(msgs))

\* simplefix.FixParser.get_message on the bytes given to append_buffer so far:
\* the first complete message (<<>> for None) and the bytes left
FixParser_get_message(parser) ==
    IF \E i \in 1..Len(parser) : parser[i] = 0
    THEN LET i == CHOOSE j \in 1..Len(parser) :
                      parser[j] = 0 /\ \A k \in 1..(j - 1) : parser[k] # 0
         IN [message |-> <<SubSeq(parser, 1, i - 1)>>,
             parser |-> SubSeq(parser, i + 1, Len(parser))]
    ELSE [message |-> <<>>, parser |-> parser]

RECURSIVE parse_loop(_, _)
\* the "while message is not None" loop of readable: every complete message
\* is appended to the queue
parse_loop(parser, queue) ==
    LET r == FixParser_get_message(parser) IN
    IF r.message = <<>> THEN [parser |-> parser, queue |-> queue]
    ELSE parse_loop(r.parser, queue \o r.message)

RECURSIVE SentOn(_)
\* the number of messages written on the connections of f
SentOn(f) ==
    IF DOMAIN f = {} THEN 0
    ELSE LET k == CHOOSE x \in DOMAIN f : TRUE IN Len(f[k].sent) + SentOn(Del(f, k))

\* the peer of ServerSession id writes a message
PeerSend_session(id, body) ==
    /\ id \in readers.sess
    /\ sessions[id].is_connected
    /\ SentOn(net.sess) + SentOn(net.cli) < MaxMsgs
    /\ LET t == Traffic(net.sess, id) IN
       net' = [net EXCEPT !.sess = Put(@, id, [t EXCEPT !.wire = @ \o encode(body),
                                                         !.sent = Append(@, body)])]
    /\ UNCHANGED <<wire, frames, returned, dispatched, nreads, control_sessions, buffer,
                   readers, clients, servers, server_sessions, sessions, lsocks,
                   acceptLog, promoteLog, last>>

\* the peer of Client name writes a message
PeerSend_client(name, body) ==
    /\ name \in readers.cli
    /\ SentOn(net.sess) + SentOn(net.cli) < MaxMsgs
    /\ LET t == Traffic(net.cli, name) IN
       net' = [net EXCEPT !.cli = Put(@, name, [t EXCEPT !.wire = @ \o encode(body),
                                                          !.sent = Append(@, body)])]
    /\ UNCHANGED <<wire, frames, returned, dispatched, nreads, control_sessions, buffer,
                   readers, clients, servers, server_sessions, sessions, lsocks,
                   acceptLog, promoteLog, last>>

\* ServerSession.readable with a read of n bytes
ServerSession_readable_data(id, n) ==
    /\ id \in readers.sess
    /\ LET t == Traffic(net.sess, id) IN
       /\ n \in 1..Len(t.wire)
       /\ LET buf == SubSeq(t.wire, 1, n)
              r == parse_loop(sessions[id].parser \o buf, sessions[id].queue)
          IN sessions' = [sessions EXCEPT ![id].parser = r.parser, ![id].queue = r.queue]
       /\ net' = [net EXCEPT !.sess =
                     Put(@, id, [t EXCEPT !.wire = SubSeq(@, n + 1, Len(@))])]
    /\ last' = [NoLast EXCEPT !.kind = "session_data", !.id = id]
    /\ UNCHANGED <<wire, frames, returned, dispatched, nreads, control_sessions, buffer,
                   readers, clients, servers, server_sessions, lsocks, acceptLog, promoteLog>>

\* Client.readable with a read of n bytes
Client_readable_data(name, n) ==
    /\ name \in readers.cli
    /\ LET t == Traffic(net.cli, name) IN
       /\ n \in 1..Len(t.wire)
       /\ LET buf == SubSeq(t.wire, 1, n)
              r == parse_loop(clients[name].parser \o buf, clients[name].recv_queue)
          IN clients' = [clients EXCEPT ![name].parser = r.parser,
                                        ![name].recv_queue = r.queue]
       /\ net' = [net EXCEPT !.cli =
                     Put(@, name, [t EXCEPT !.wire = SubSeq(@, n + 1, Len(@))])]
    /\ last' = [NoLast EXCEPT !.kind = "client_data", !.name = name]
    /\ UNCHANGED <<wire, frames, returned, dispatched, nreads, control_sessions, buffer,
                   readers, servers, server_sessions, sessions, lsocks, acceptLog,
                   promoteLog>>

\* ServerSession.receive_queue_length
receive_queue_length(session) == Len(session.queue)

\* get_message popping the newest message: pop() for pop(0)
get_message_newest(session) ==
    IF receive_queue_length(session) < 1
    THEN [message |-> <<>>, session |-> session]
    ELSE [message |-> <<session.queue[Len(session.queue)]>>,
          session |-> [session EXCEPT !.queue = SubSeq(@, 1, Len(@) - 1)]]

\* ServerSession.get_message: the message returned (<<>> for None) and the
\* session afterwards
get_message(session) ==
    IF receive_queue_length(session) < 1
    THEN [message |-> <<>>, session |-> session]
    ELSE [message |-> <<Head(session.queue)>>,
          session |-> [session EXCEPT !.queue = Tail(@)]]

\* ServerSession.get_message called on the session itself
ServerSession_get_message_called(id) ==
    /\ id \in 1..Len(sessions)
    /\ LET r == get_message(sessions[id])
           t == Traffic(net.sess, id)
       IN /\ sessions' = [sessions EXCEPT ![id] = r.session]
          /\ net' = [net EXCEPT !.sess = Put(@, id, [t EXCEPT !.got = @ \o r.message])]
          /\ last' = [NoLast EXCEPT !.kind = "get_message", !.id = id, !.resp = r.message]
    /\ UNCHANGED <<wire, frames, returned, dispatched, nreads, control_sessions, buffer,
                   readers, clients, servers, server_sessions, lsocks, acceptLog, promoteLog>>

\* FixToolAgent.accept
accept(sock) ==
    /\ readers.listen
    /\ sock \notin control_sessions
    /\ readers' = [readers EXCEPT !.ctl = @ \cup {sock}]
    /\ control_sessions' = control_sessions \cup {sock}
    /\ buffer' = Put(buffer, sock, <<>>)
    /\ last' = [NoLast EXCEPT !.kind = "accept", !.cs = sock]
    /\ UNCHANGED <<wire, frames, returned, dispatched, nreads>>
    /\ UNCHANGED <<clients, servers, server_sessions, sessions, lsocks, acceptLog, promoteLog,
                   net>>

\* a whole frame carrying a request arrives on a control session whose
\* buffer is empty: FixToolAgent.readable decodes it and calls handle_request
readable_client_request(sock, message) ==
    /\ sock \in control_sessions
    /\ sock \in readers.ctl
    /\ buffer[sock] = <<>>
    /\ handle_client_request(sock, message)

readable_server_request(sock, message) ==
    /\ sock \in control_sessions
    /\ sock \in readers.ctl
    /\ buffer[sock] = <<>>
    /\ handle_server_request(sock, message)

Init ==
    /\ FrameInit
    /\ AgentInit
    /\ control_sessions = {}
    /\ buffer = Empty
    /\ readers = [listen |-> TRUE, ctl |-> {}, cli |-> {}, lsock |-> {}, sess |-> {}]

ClientRequests == {m \in Requests : m.type \in ClientRequestTypes}
ServerRequests == Requests \ ClientRequests

\* the agent driven by controllers that use the client_* requests
NextClient ==
    \/ \E sock \in ControlSockets : accept(sock)
    \/ \E sock \in ControlSockets : readable_eof(sock)
    \/ \E sock \in ControlSockets : \E message \in ClientRequests :
          readable_client_request(sock, message)
    \/ \E name \in ClientNames : Client_readable(name)

SpecClient == Init /\ [][NextClient]_vars

\* SpecClient with Client.disconnect also called directly on the Clients
NextClientApi ==
    \/ \E sock \in ControlSockets : accept(sock)
    \/ \E sock \in ControlSockets : readable_eof(sock)
    \/ \E sock \in ControlSockets : \E message \in ClientRequests :
          readable_client_request(sock, message)
    \/ \E name \in ClientNames : Client_readable(name)
    \/ \E name \in ClientNames : Client_disconnect_called(name)

SpecClientApi == Init /\ [][NextClientApi]_vars

\* the agent driven by one controller that uses the server_* requests
NextServer ==
    \/ accept(1)
    \/ readable_eof(1)
    \/ \E message \in ServerRequests : readable_server_request(1, message)
    \/ \E k \in 1..MaxListen : Server_acceptable(k)
    \/ \E id \in 1..MaxConn : ServerSession_readable(id)

SpecServer == Init /\ [][NextServer]_vars

\* the agent driven by one controller that stays connected, uses valid
\* requests only and calls server_listen on a server that is not listening
FifoRequests ==
    {m \in ServerRequests :
        /\ m.type \in RecognizedTypes \ {"server_is_connected_request"}
        /\ m.port \in {<<>>, <<0>>}
        /\ m.type \in PortRequestTypes => m.port = <<0>>}

NextFifo ==
    \/ accept(1)
    \/ \E message \in FifoRequests :
          /\ (message.type = "server_listen" /\ message.name \in DOMAIN servers)
                => servers[message.name].socket = 0
          /\ readable_server_request(1, message)
    \/ \E k \in 1..MaxListen : Server_acceptable(k)
    \/ \E id \in 1..MaxConn : ServerSession_readable(id)

SpecFifo == Init /\ [][NextFifo]_vars

\* the controller of SpecFifo, sending requests of unhandled types as well
DispatchRequests ==
    FifoRequests \cup {m \in ServerRequests : m.type \notin RecognizedTypes}

NextDispatch ==
    \/ accept(1)
    \/ \E message \in DispatchRequests :
          /\ (message.type = "server_listen" /\ message.name \in DOMAIN servers)
                => servers[message.name].socket = 0
          /\ readable_server_request(1, message)
    \/ \E k \in 1..MaxListen : Server_acceptable(k)
    \/ \E id \in 1..MaxConn : ServerSession_readable(id)

SpecDispatch == Init /\ [][NextDispatch]_vars

\* the agent driven by one controller that creates and destroys servers and
\* calls server_listen and server_unlisten with every port argument, while no
\* peer connects
PortsRequests ==
    {m \in ServerRequests :
        m.type \in PortRequestTypes \cup {"server_create", "server_destroy"}}

NextPorts ==
    \/ accept(1)
    \/ readable_eof(1)
    \/ \E message \in PortsRequests : readable_server_request(1, message)

SpecPorts == Init /\ [][NextPorts]_vars

\* The agent after accept(1), server_create S, server_listen S on port 0, a
\* connection accepted and promoted by server_accept as session x,
\* client_create A and client_connect A
InitEndpoint ==
    /\ FrameInit
    /\ control_sessions = {1}
    /\ buffer = [c \in {1} |-> <<>>]
    /\ readers = [listen |-> TRUE, ctl |-> {1}, cli |-> {"A"}, lsock |-> {1}, sess |-> {1}]
    /\ clients = [c \in {"A"} |->
                     [Client_new EXCEPT !.socket = "connected", !.is_connected = TRUE]]
    /\ servers = [v \in {"S"} |->
                     [socket |-> 1, pending |-> <<>>, accepted |-> [n \in {"x"} |-> 1]]]
    /\ server_sessions = [n \in {"x"} |-> 1]
    /\ sessions = <<ServerSession_new>>
    /\ lsocks = [k \in {1} |-> [owner |-> "S", state |-> "listening", port |-> 0]]
    /\ acceptLog = [v \in {"S"} |-> <<1>>]
    /\ promoteLog = [v \in {"S"} |-> <<1>>]
    /\ last = Answered(1, [NoMsg EXCEPT !.type = "client_connect", !.name = "A"],
                       Response("ClientConnectedMessage", "A", TRUE, <<>>))
    /\ net = NoNet

\* the peers write messages, the reactor calls readable, a caller takes the
\* messages with get_message
NextEndpoint ==
    \/ \E id \in 1..MaxConn : \E body \in FixBodies : PeerSend_session(id, body)
    \/ \E name \in ClientNames : \E body \in FixBodies : PeerSend_client(name, body)
    \/ \E id \in 1..MaxConn : \E n \in 1..(3 * MaxMsgs) : ServerSession_readable_data(id, n)
    \/ \E name \in ClientNames : \E n \in 1..(3 * MaxMsgs) : Client_readable_data(name, n)
    \/ \E id \in 1..MaxConn : ServerSession_readable(id)
    \/ \E name \in ClientNames : Client_readable(name)
    \/ \E id \in 1..MaxConn : ServerSession_get_message_called(id)

SpecEndpoint == InitEndpoint /\ [][NextEndpoint]_vars

\* the controllers of SpecClient at work on an agent that already has a
\* listening server, an accepted session and a connected client
SpecControl == InitEndpoint /\ [][NextClient]_vars

\* ---------------------------------------------------------------- claims

\* C1: a single frame whose bytes reach a fresh session in two or more
\* append_bytes calls yields exactly one payload, the original one.
C1_PartialFrameReassembly ==
    (Len(frames) = 1 /\ wire = <<>> /\ nreads >= 2) => returned = frames

\* C2: two complete frames arriving in one read are both dispatched, in
\* order, by that one readable callback.
C2_MultiFrameBatching ==
    (Len(frames) = 2 /\ wire = <<>> /\ nreads = 1) => dispatched = frames

\* C3: a single frame produced by send and fed in one append_bytes call to a
\* fresh session decodes to the original payload, whatever its length.
C3_FrameRoundTrip ==
    (Len(frames) = 1 /\ wire = <<>> /\ nreads = 1) => returned = frames

\* the step is handle_request(sock, message), decoded from a whole frame
Handles(sock, message) ==
    \/ readable_client_request(sock, message)
    \/ readable_server_request(sock, message)

\* the one response the last request was answered with
Answer == last.resp[1].body

\* the words of sub appear, in a row, in the text
Contains(text, sub) ==
    \E i \in 1..(Len(text) - Len(sub) + 1) : SubSeq(text, i, i + Len(sub) - 1) = sub

\* C4: every recognized request is answered with exactly one response, sent
\* to the control session that made it, and its handler does not raise.
C4_OneResponseNoRaise ==
    (last.kind = "request" /\ last.msg.type \in RecognizedTypes)
        => /\ ~last.raised
           /\ Len(last.resp) = 1
           /\ last.resp[1].to = last.cs

\* the request fails validation in the current state
ViolatesValidation(message) ==
    \/ message.type = "client_create" /\ message.name \in DOMAIN clients
    \/ message.type = "server_create" /\ message.name \in DOMAIN servers
    \/ message.type \in ClientRequestTypes \ {"client_create"}
          /\ message.name \notin DOMAIN clients
    \/ message.type \in (ServerRequestTypes \cup PortRequestTypes \cup {"server_accept"})
                            \ {"server_create"}
          /\ message.name \notin DOMAIN servers
    \/ message.type \in SessionRequestTypes /\ message.name \notin DOMAIN server_sessions
    \/ message.type \in PortRequestTypes /\ message.port # <<>>
          /\ (message.port[1] < 0 \/ message.port[1] > 65535)

\* C5: a request that fails validation is answered with success=false and a
\* reason, and leaves the tables, the entities and the reactor as they were.
C5_ValidationFailureNoMutation ==
    [][\A sock \in ControlSockets : \A message \in Requests :
          (ViolatesValidation(message) /\ Handles(sock, message))
              => /\ Len(last'.resp) = 1
                 /\ ~last'.resp[1].body.success
                 /\ last'.resp[1].body.reason # <<>>
                 /\ UNCHANGED <<control_sessions, clients, servers, server_sessions,
                                sessions, lsocks, readers>>]_vars

\* C6: client_create of a name in the table fails with "already exists" and
\* leaves the table alone; client_destroy of a client in the table succeeds
\* whatever the client's state and removes the name; client_create of a name
\* not in the table succeeds and enters it.
C6_ClientNameUniqueness ==
    [][\A sock \in ControlSockets : \A message \in ClientRequests :
          Handles(sock, message) =>
              LET name == message.name
                  answered == Len(last'.resp) = 1 /\ ~last'.raised
              IN /\ (message.type = "client_create" /\ name \in DOMAIN clients)
                        => /\ answered
                           /\ ~last'.resp[1].body.success
                           /\ Contains(last'.resp[1].body.reason, <<"already", "exists">>)
                           /\ clients' = clients
                 /\ (message.type = "client_create" /\ name \notin DOMAIN clients)
                        => /\ answered
                           /\ last'.resp[1].body.success
                           /\ name \in DOMAIN clients'
                 /\ (message.type = "client_destroy" /\ name \in DOMAIN clients)
                        => /\ answered
                           /\ last'.resp[1].body.success
                           /\ name \notin DOMAIN clients'
                           /\ name \notin readers'.cli]_vars

\* a connected client has just been destroyed: its name is free again
C6_Witness ==
    /\ last.kind = "request"
    /\ last.msg.type = "client_destroy"
    /\ Len(last.resp) = 1
    /\ Answer.success
    /\ last.msg.name \notin DOMAIN clients
    /\ \E other \in DOMAIN clients : clients[other].is_connected

\* C7: server_accept on an existing server with nothing pending answers
\* success=true with an empty session_name.
C7_AcceptEmpty ==
    [][\A message \in ServerRequests :
          (/\ message.type = "server_accept"
           /\ message.name \in DOMAIN servers
           /\ Handles(1, message)
           /\ servers[message.name].pending = <<>>)
              => /\ Len(last'.resp) = 1
                 /\ last'.resp[1].body.success
                 /\ last'.resp[1].body.session_name = ""]_vars

\* C8: the k-th promotion by server_accept on a server enters, under the
\* requested session name, the k-th connection that server raw-accepted.
C8_PendingFIFO ==
    [][\A message \in ServerRequests :
          (/\ message.type = "server_accept"
           /\ message.name \in DOMAIN servers
           /\ Handles(1, message)
           /\ servers[message.name].pending # <<>>)
              => LET name == message.name
                     k == Len(promoteLog[name]) + 1
                     kth == acceptLog[name][k]
                 IN /\ promoteLog'[name] = Append(promoteLog[name], kth)
                    /\ servers'[name].accepted[message.session_name] = kth
                    /\ server_sessions'[message.session_name] = kth
                    /\ last'.resp[1].body.success]_vars

\* the older of two pending connections has just been promoted: the newer
\* one is still pending
C8_Witness ==
    /\ "S" \in DOMAIN servers
    /\ last.kind = "request"
    /\ last.msg.type = "server_accept"
    /\ Len(acceptLog["S"]) >= 2
    /\ promoteLog["S"] = <<acceptLog["S"][1]>>
    /\ servers["S"].pending # <<>>
    /\ server_sessions[last.msg.session_name] = acceptLog["S"][1]

\* C9: every connection a live server raw-accepted is in its pending queue
\* or under exactly one name of its accepted table, never both, never neither.
C9_ConnectionPlacement ==
    \A name \in DOMAIN servers : \A id \in SeqRange(acceptLog[name]) :
        LET inPending == id \in SeqRange(servers[name].pending)
            names == {sn \in DOMAIN servers[name].accepted : servers[name].accepted[sn] = id}
        IN /\ inPending => names = {}
           /\ ~inPending => Cardinality(names) = 1

\* C10: after a zero-length read on the socket of a Client or ServerSession
\* the entity is not connected, its socket is no longer registered with the
\* reactor, and nothing was sent.
C10_PeerClose ==
    /\ last.kind = "client_eof"
          => /\ ~clients[last.name].is_connected
             /\ last.name \notin readers.cli
             /\ last.resp = <<>>
    /\ last.kind = "session_eof"
          => /\ ~sessions[last.id].is_connected
             /\ last.id \notin readers.sess
             /\ last.resp = <<>>

\* C11: server_destroy on a server in the table, idle or listening, removes
\* it, leaves none of its listening sockets open or registered, and leaves
\* each of its pending and accepted sessions disconnected and unregistered.
C11_ServerDestroyCascade ==
    [][\A message \in ServerRequests :
          (/\ message.type = "server_destroy"
           /\ message.name \in DOMAIN servers
           /\ Handles(1, message))
              => LET name == message.name
                     owned == SeqRange(servers[name].pending)
                                  \cup Range(servers[name].accepted)
                 IN /\ name \notin DOMAIN servers'
                    /\ \A k \in DOMAIN lsocks :
                          lsocks[k].owner = name
                              => k \notin DOMAIN lsocks' /\ k \notin readers'.lsock
                    /\ \A id \in owned :
                          ~sessions'[id].is_connected /\ id \notin readers'.sess]_vars

\* C12: a request whose type is not a recognized one is answered with no
\* response on any control session, raises nothing, and leaves the tables,
\* the entities and the reactor as they were.
C12_UnknownTypeSilent ==
    [][\A message \in ServerRequests :
          (message.type \notin RecognizedTypes /\ Handles(1, message))
              => /\ last'.resp = <<>>
                 /\ ~last'.raised
                 /\ UNCHANGED <<control_sessions, buffer, clients, servers,
                                server_sessions, sessions, lsocks, readers>>]_vars

\* a request of an unknown type has just been dropped while a server held a
\* pending and an accepted session
C12_Witness ==
    /\ last.kind = "request"
    /\ last.msg.type = "bogus"
    /\ last.resp = <<>>
    /\ \E name \in DOMAIN servers :
          servers[name].pending # <<>> /\ DOMAIN servers[name].accepted # {}

\* C13: disconnecting a connected Client, by a disconnect call or by a
\* zero-length read, does not raise and leaves it not connected and not
\* registered; destroying a Client whose socket a disconnect has closed does
\* not raise either, and leaves it not registered.
C13_DisconnectThenDestroy ==
    [][\A name \in ClientNames :
          /\ (/\ name \in DOMAIN clients
              /\ clients[name].is_connected
              /\ (Client_disconnect_called(name) \/ Client_readable(name)))
                 => /\ ~last'.raised
                    /\ ~clients'[name].is_connected
                    /\ clients'[name].socket = "closed"
                    /\ name \notin readers'.cli
          /\ \A sock \in ControlSockets :
                (/\ name \in DOMAIN clients
                 /\ clients[name].socket = "closed"
                 /\ Handles(sock, [NoMsg EXCEPT !.type = "client_destroy", !.name = name]))
                    => /\ ~clients[name].is_connected
                       /\ ~last'.raised
                       /\ Len(last'.resp) = 1
                       /\ last'.resp[1].body.success
                       /\ name \notin DOMAIN clients'
                       /\ name \notin readers'.cli]_vars

\* a Client has just been disconnected by a call, its socket is closed, and
\* client_destroy can follow
C13_Witness ==
    /\ last.kind = "client_disconnect"
    /\ ~last.raised
    /\ last.name \in DOMAIN clients
    /\ clients[last.name].socket = "closed"
    /\ ~clients[last.name].is_connected
    /\ control_sessions # {}

\* C14: an append_bytes call takes bytes out of the accumulation buffer, or
\* returns a payload, only when the buffer with the new bytes holds the whole
\* 4+L bytes of its leading frame; a call that returns no payload leaves the
\* buffer equal to the previous buffer followed by the new bytes.
C14_ExtractionSafety ==
    [][\A sock \in ControlSockets : \A n \in 1..Len(wire) :
          readable_bytes(sock, n) =>
              LET all == buffer[sock] \o SubSeq(wire, 1, n)
                  full == Len(all) >= 4 /\ Len(all) >= 4 + Unpack(Slice(all, 0, 4))
              IN /\ (returned' # returned \/ buffer'[sock] # all) => full
                 /\ returned' = returned => buffer'[sock] = all
                 /\ Len(returned') <= Len(returned) + 1]_vars

\* three reads: the second returned a payload, the third left its bytes in
\* the buffer
C14_Witness ==
    /\ 1 \in DOMAIN buffer
    /\ nreads = 3
    /\ Len(returned) = 1
    /\ buffer[1] # <<>>
    /\ Len(buffer[1]) < 4 + MaxPayloadLen

\* C15: server_listen and server_unlisten on a server in the table answer
\* success=false exactly when the port is missing, below 0 or above 65535,
\* and then change nothing; with a port in [0, 65535] Server.listen or
\* Server.unlisten is entered; on a name not in the table the answer is the
\* "No such server" failure whatever the port.
C15_PortRangeValidation ==
    [][\A message \in ServerRequests :
          (message.type \in PortRequestTypes /\ Handles(1, message)) =>
              LET name == message.name
                  port == message.port
                  failed == Len(last'.resp) = 1 /\ ~last'.resp[1].body.success
                  outOfRange == port = <<>> \/ port[1] < 0 \/ port[1] > 65535
              IN IF name \notin DOMAIN servers
                 THEN /\ failed
                      /\ Contains(last'.resp[1].body.reason, <<"No", "such", "server">>)
                      /\ UNCHANGED <<servers, lsocks, readers>>
                 ELSE /\ failed <=> outOfRange
                      /\ failed => /\ Contains(last'.resp[1].body.reason, <<"port">>)
                                   /\ UNCHANGED <<servers, lsocks, readers>>
                      /\ (~outOfRange /\ message.type = "server_listen")
                            => /\ servers'[name].socket # servers[name].socket
                               /\ servers'[name].socket \in DOMAIN lsocks'
                      /\ (~outOfRange /\ message.type = "server_unlisten")
                            => \/ last'.raised /\ servers[name].socket = 0
                               \/ /\ last'.resp[1].body.success
                                  /\ servers'[name].socket = 0
                                  /\ servers[name].socket \notin DOMAIN lsocks']_vars

\* a server listens on port 65535 and has just been told to listen on port 0
C15_Witness ==
    /\ last.kind = "request"
    /\ last.msg.type = "server_listen"
    /\ last.msg.port = <<0>>
    /\ Len(last.resp) = 1
    /\ Answer.success
    /\ \E k \in DOMAIN lsocks : lsocks[k].state = "listening" /\ lsocks[k].port = 65535

\* the messages written to a connection are, in order: those get_message
\* handed out, those in the queue, and those whose bytes are in the parser
\* or in flight; the parser holds no complete message
EndpointFifo ==
    /\ \A id \in 1..Len(sessions) :
          LET t == Traffic(net.sess, id)
              arrived == t.got \o sessions[id].queue
          IN /\ Len(arrived) <= Len(t.sent)
             /\ arrived = SubSeq(t.sent, 1, Len(arrived))
             /\ Written(SubSeq(t.sent, Len(arrived) + 1, Len(t.sent)))
                   = sessions[id].parser \o t.wire
             /\ \A i \in 1..Len(sessions[id].parser) : sessions[id].parser[i] # 0
    /\ \A name \in DOMAIN clients :
          LET t == Traffic(net.cli, name)
              arrived == clients[name].recv_queue
          IN /\ Len(arrived) <= Len(t.sent)
             /\ arrived = SubSeq(t.sent, 1, Len(arrived))
             /\ Written(SubSeq(t.sent, Len(arrived) + 1, Len(t.sent)))
                   = clients[name].parser \o t.wire
             /\ \A i \in 1..Len(clients[name].parser) : clients[name].parser[i] # 0

\* readable appends at the tail; get_message returns the head and removes
\* it, or returns None and leaves the queue alone
EndpointSteps ==
    /\ \A id \in 1..Len(sessions) : \A n \in 1..(3 * MaxMsgs) :
          ServerSession_readable_data(id, n)
              => SubSeq(sessions'[id].queue, 1, Len(sessions[id].queue)) = sessions[id].queue
    /\ \A name \in DOMAIN clients : \A n \in 1..(3 * MaxMsgs) :
          Client_readable_data(name, n)
              => SubSeq(clients'[name].recv_queue, 1, Len(clients[name].recv_queue))
                     = clients[name].recv_queue
    /\ \A id \in 1..Len(sessions) :
          ServerSession_get_message_called(id)
              => IF sessions[id].queue = <<>>
                 THEN last'.resp = <<>> /\ sessions' = sessions
                 ELSE /\ last'.resp = <<Head(sessions[id].queue)>>
                      /\ sessions'[id].queue = Tail(sessions[id].queue)

\* C16: on each connection the decoded messages enter the tail of the queue
\* in the order the peer wrote them, over any number of reads, and
\* get_message calls return them in that order; on an empty queue
\* get_message returns None and changes nothing.
C16_EndpointInboundFifo == []EndpointFifo /\ [][EndpointSteps]_vars

\* two different messages reached a session; get_message has just returned
\* the first, the second is still queued
C16_Witness ==
    /\ last.kind = "get_message"
    /\ Len(sessions) >= 1
    /\ Traffic(net.sess, 1).got = <<<<1, 1>>>>
    /\ sessions[1].queue = <<<<1>>>>
    /\ last.resp = <<<<1, 1>>>>

\* the listening sockets of server name that are registered with the reactor
Registered(name) == {k \in readers.lsock : lsocks[k].owner = name}

\* C17: a server has no listening socket after server_create and after a
\* successful server_unlisten, and has one after a successful server_listen;
\* in every state at most one listening socket of a server is registered, so
\* that after a successful server_unlisten no acceptance callback remains.
C17_ListeningStateMachine ==
    /\ \A name \in DOMAIN servers : Cardinality(Registered(name)) <= 1
    /\ (last.kind = "request" /\ Len(last.resp) = 1 /\ Answer.success)
          => LET name == last.msg.name IN
             /\ last.msg.type = "server_create"
                   => servers[name].socket = 0 /\ Registered(name) = {}
             /\ last.msg.type = "server_unlisten"
                   => servers[name].socket = 0 /\ Registered(name) = {}
             /\ last.msg.type = "server_listen"
                   => Registered(name) = {servers[name].socket}

\* C18: client_is_connected_request on a client in the table answers
\* success=true with the client's connection state: not connected from
\* client_create on, connected from a successful client_connect on, not
\* connected again after a disconnect, a zero-length read or a destroy; a
\* client_connect that fails changes nothing, so a client that was not
\* connected stays so.
C18_ClientConnectionState ==
    [][\A name \in ClientNames :
          LET before == name \in DOMAIN clients /\ clients[name].is_connected
              after == name \in DOMAIN clients' /\ clients'[name].is_connected
              req(t) == \E sock \in ControlSockets :
                            Handles(sock, [NoMsg EXCEPT !.type = t, !.name = name])
              answered == Len(last'.resp) = 1 /\ last'.resp[1].body.success
              closes == \/ Client_readable(name)
                        \/ Client_disconnect_called(name)
                        \/ req("client_destroy")
          IN /\ (req("client_is_connected_request") /\ name \in DOMAIN clients)
                   => /\ answered
                      /\ last'.resp[1].body.is_connected = before
                      /\ after = before
             /\ (req("client_create") /\ name \notin DOMAIN clients)
                   => name \in DOMAIN clients' /\ ~after
             /\ (req("client_connect") /\ name \in DOMAIN clients)
                   => IF answered THEN ~before /\ after
                      ELSE /\ last'.raised
                           /\ clients' = clients
                           /\ readers' = readers
                           /\ ~before => ~after
             /\ (name \in DOMAIN clients /\ closes) => ~after /\ name \notin readers'.cli
             /\ (~before /\ after) => req("client_connect") /\ answered
             /\ (before /\ ~after) => closes]_vars

\* a client that was connected and then closed has just been reported as
\* not connected
C18_Witness ==
    /\ last.kind = "request"
    /\ last.msg.type = "client_is_connected_request"
    /\ Len(last.resp) = 1
    /\ Answer.success
    /\ ~Answer.is_connected
    /\ last.msg.name \in DOMAIN clients
    /\ clients[last.msg.name].socket = "closed"
    /\ \E other \in DOMAIN clients : clients[other].is_connected

RECURSIVE Framed(_)
\* the bytes the controller writes for the payloads ps: each framed by send
Framed(ps) == IF ps = <<>> THEN <<>> ELSE send(Head(ps)) \o Framed(Tail(ps))

\* C20: whatever the chunks, the payloads append_bytes has returned are the
\* first frames sent, whole and in order, and the accumulation buffer begins
\* at the boundary of the oldest frame not yet returned: the buffer followed
\* by the bytes not yet read is the framing of the frames that remain.
C20_FrameAlignment ==
    \A sock \in control_sessions :
        /\ Len(returned) <= Len(frames)
        /\ returned = SubSeq(frames, 1, Len(returned))
        /\ buffer[sock] \o wire = Framed(SubSeq(frames, Len(returned) + 1, Len(frames)))

\* three reads have returned the first two of three frames, and the buffer
\* holds exactly the third
C20_Witness ==
    /\ 1 \in control_sessions
    /\ Len(frames) = 3
    /\ nreads = 3
    /\ returned = <<frames[1], frames[2]>>
    /\ frames[1] # frames[2]
    /\ wire = <<>>
    /\ buffer[1] = send(frames[3])

\* the sessions the servers in the table hold, pending or accepted
Owned == UNION {SeqRange(servers[name].pending) \cup Range(servers[name].accepted) :
                   name \in DOMAIN servers}

\* C21: between callbacks the sockets registered with the reactor are exactly
\* the control listening socket, the sockets of the control sessions in the
\* table, of the connected clients in the table, the listening sockets of
\* the listening servers in the table, and the sockets of the connected
\* sessions those servers hold.
C21_ReactorRegistration ==
    /\ readers.listen
    /\ readers.ctl = control_sessions
    /\ readers.cli = {name \in DOMAIN clients : clients[name].is_connected}
    /\ readers.lsock = {k \in DOMAIN lsocks :
                           /\ lsocks[k].state = "listening"
                           /\ \E name \in DOMAIN servers : servers[name].socket = k}
    /\ readers.sess = {id \in Owned : sessions[id].is_connected}

\* C22: every name server_is_connected_request and server_disconnect find in
\* the server-sessions table is a session some server in the servers table
\* holds under that name in its accepted table.
C22_NoDanglingSessions ==
    \A sn \in DOMAIN server_sessions :
        server_sessions[sn] # 0
            => \E name \in DOMAIN servers :
                  /\ sn \in DOMAIN servers[name].accepted
                  /\ servers[name].accepted[sn] = server_sessions[sn]

\* C23: server_accept on a server with nothing pending leaves the server's
\* pending queue and accepted table alone, and every session name resolves
\* afterwards to the session it resolved to before.
C23_AcceptEmptyChangesNothing ==
    [][\A message \in ServerRequests :
          (/\ message.type = "server_accept"
           /\ message.name \in DOMAIN servers
           /\ Handles(1, message)
           /\ servers[message.name].pending = <<>>)
              => /\ servers' = servers
                 /\ \A sn \in SessionNames :
                       Get(server_sessions', sn) = Get(server_sessions, sn)]_vars

====
